---- MODULE Spec2Model ----
(***************************************************************************)
(* State-machine model of the study-assistant front end:                  *)
(*   - LearnWithAIClient          (src/src/lib/api.ts)                     *)
(*   - UploadModal, QuizInterface (src/src/components/UploadModal.tsx)     *)
(*   - ChatInterface              (src/src/components/ChatInterface.tsx)   *)
(*   - StudyDashboard             (src/src/components/StudyDashboard.tsx)  *)
(* Every React state cell is a variable; every event handler, timer       *)
(* callback and promise continuation is one action.  JavaScript runs each *)
(* of them to completion, so an action is atomic, and an await splits a   *)
(* handler into the part before the request and the continuation.         *)
(***************************************************************************)
EXTENDS Integers, Sequences, FiniteSets, TLC

VARIABLES
    \* ---- LearnWithAIClient and the browser's localStorage
    token,              \* this.token (null or a string)
    authToken,          \* localStorage entry 'authToken' (null when absent)
    authInFlight,       \* login/register requests awaiting their response
    lastRequest,        \* the request most recently handed to fetch
    fetchCount,         \* number of fetch calls made so far
    \* ---- UploadModal (and the StudyDashboard cells its callbacks write)
    file,
    isUploading,
    uploadProgress,
    uploadStatus,
    progressInterval,   \* TRUE while the setInterval of handleUpload is armed
    resetTimers,        \* number of armed setTimeout(..., 1500) callbacks
    uploadRequest,      \* the uploadNote request awaiting its response
    uploadsSucceeded,   \* number of uploadNote requests that resolved successfully
    isUploadModalOpen,
    refreshKey,
    \* ---- QuizInterface
    questions,
    currentQuestionIndex,   \* 0-based, as in the source
    answers,
    selectedAnswer,
    quizLoading,        \* isLoading of QuizInterface
    quizState,
    results,
    quizInFlight,       \* generateQuestions/submitAnswers requests awaiting a response
    advances,           \* accepted advances since the last successful generateQuiz
    \* ---- ChatInterface
    chatMounted,
    messages,
    inputValue,
    chatLoading,        \* isLoading of ChatInterface
    convInFlight,       \* getConversations request awaiting its response
    askInFlight,        \* askQuestion requests awaiting their response
    lenAtSend,          \* Len(messages) when the running send started
    \* ---- NotesGrid
    notesMounted,
    notes,
    notesLoading,       \* isLoading of NotesGrid
    notesLoadInFlight,  \* getNotes request awaiting its response
    deletesInFlight,    \* deleteNote requests awaiting their response
    loadedNotes,        \* the list the last getNotes response put on display
    deletedIds,         \* ids whose deleteNote request has succeeded
    \* ---- StudyDashboard
    viewMode,
    selectedNote,
    staleDeletes,       \* ids of deleteNote requests whose NotesGrid was unmounted
    \* ---- shared
    lastToast,          \* title of the toast shown last ("" when none)
    lastStep,           \* name of the handler or continuation that ran last
    lastReply           \* body of the response the last continuation received

clientVars == <<token, authToken, authInFlight, lastRequest, fetchCount>>
uploadVars == <<file, isUploading, uploadProgress, uploadStatus, progressInterval,
                resetTimers, uploadRequest, uploadsSucceeded,
                isUploadModalOpen, refreshKey>>
quizVars   == <<questions, currentQuestionIndex, answers, selectedAnswer, quizLoading,
                quizState, results, quizInFlight, advances>>
chatVars   == <<chatMounted, messages, inputValue, chatLoading, convInFlight,
                askInFlight, lenAtSend>>
notesVars  == <<notesMounted, notes, notesLoading, notesLoadInFlight, deletesInFlight,
               loadedNotes, deletedIds>>
dashVars   == <<viewMode, selectedNote, staleDeletes>>
vars == <<clientVars, uploadVars, quizVars, chatVars, notesVars, dashVars, lastToast,
          lastStep, lastReply>>

(***************************************************************************)
(* Bounds of the model.                                                    *)
(***************************************************************************)
MaxAuthInFlight == 1
MaxFetch == 3
MaxQuestions == 2
MaxHistory == 1
MaxNotes == 2

(***************************************************************************)
(* JavaScript values.                                                      *)
(***************************************************************************)
null == "<null>"                 \* null, where the other values are strings
Tokens == {"", "t1", "t2"}       \* token strings a server may return
Truthy(s) == s # null /\ s # ""  \* !!s for s a string or null

NoReply == [none |-> TRUE]       \* no response body (a rejection, or none yet)

Min(a, b) == IF a < b THEN a ELSE b

(***************************************************************************)
(* LearnWithAIClient                                                       *)
(***************************************************************************)
NoHeader == "<absent>"           \* the headers object has no Authorization key
NoRequest == [op |-> "<none>", authorization |-> NoHeader]

RequestOps == {"getNotes", "getNote", "deleteNote", "askQuestion", "generateQuestions",
               "submitAnswers", "getConversations", "getGradedQuestion"}
AuthOps == {"register", "login"}

\* `Bearer ${this.token}`: a template literal renders null as the text "null"
BearerOf(t) == "Bearer " \o (IF t = null THEN "null" ELSE t)

\* request(): headers.Authorization is set only when this.token is truthy
RequestAuthorization == IF Truthy(token) THEN BearerOf(token) ELSE NoHeader

\* uploadNote(): builds its own headers, Authorization always among them
UploadAuthorization == BearerOf(token)

isAuthenticated == Truthy(token)

Fetch(op, auth) ==
    /\ fetchCount < MaxFetch
    /\ lastRequest' = [op |-> op, authorization |-> auth]
    /\ fetchCount' = fetchCount + 1

\* register()/login() up to the await of request()
AuthCall(op) ==
    /\ Len(authInFlight) < MaxAuthInFlight
    /\ Fetch(op, RequestAuthorization)
    /\ authInFlight' = Append(authInFlight, op)
    /\ lastStep' = op
    /\ UNCHANGED <<notesVars, dashVars, lastReply>>
    /\ UNCHANGED <<token, authToken, uploadVars, quizVars, chatVars, lastToast>>

RemoveAt(s, i) == SubSeq(s, 1, i - 1) \o SubSeq(s, i + 1, Len(s))

\* mutant: the token of the response body is stored whatever the status
AuthResponseStoresOnFailure(i, ok, tok) ==
    /\ i \in 1..Len(authInFlight)
    /\ authInFlight' = RemoveAt(authInFlight, i)
    /\ token' = tok
    /\ authToken' = tok
    /\ lastStep' = authInFlight[i] \o (IF ok THEN ":ok" ELSE ":error")
    /\ lastReply' = IF ok THEN [token |-> tok] ELSE NoReply
    /\ UNCHANGED <<lastRequest, fetchCount, uploadVars, quizVars, chatVars, notesVars, dashVars,
                   lastToast>>

\* mutant: the returned token is kept in the field and not written to localStorage
AuthResponseMemoryOnly(i, ok, tok) ==
    /\ i \in 1..Len(authInFlight)
    /\ authInFlight' = RemoveAt(authInFlight, i)
    /\ token' = IF ok THEN tok ELSE token
    /\ lastStep' = authInFlight[i] \o (IF ok THEN ":ok" ELSE ":error")
    /\ lastReply' = IF ok THEN [token |-> tok] ELSE NoReply
    /\ UNCHANGED <<authToken, lastRequest, fetchCount, uploadVars, quizVars, chatVars,
                   notesVars, dashVars, lastToast>>

\* the continuation of register()/login(): request() throws on !response.ok,
\* otherwise the returned token is stored in the field and in localStorage
AuthResponse(i, ok, tok) ==
    /\ i \in 1..Len(authInFlight)
    /\ authInFlight' = RemoveAt(authInFlight, i)
    /\ IF ok
       THEN /\ token' = tok
            /\ authToken' = tok
            /\ lastStep' = authInFlight[i] \o ":ok"
            /\ lastReply' = [token |-> tok]
            /\ UNCHANGED <<notesVars, dashVars>>
       ELSE /\ UNCHANGED <<token, authToken>>
            /\ lastStep' = authInFlight[i] \o ":error"
            /\ lastReply' = NoReply
            /\ UNCHANGED <<notesVars, dashVars>>
    /\ UNCHANGED <<lastRequest, fetchCount, uploadVars, quizVars, chatVars, lastToast>>

\* mutant: logout that forgets localStorage.removeItem
logoutKeepsStorage ==
    /\ token' = null
    /\ lastStep' = "logout"
    /\ UNCHANGED <<notesVars, dashVars, lastReply>>
    /\ UNCHANGED <<authToken, authInFlight, lastRequest, fetchCount, uploadVars, quizVars,
                   chatVars, lastToast>>

logout ==
    /\ token' = null
    /\ authToken' = null
    /\ lastStep' = "logout"
    /\ UNCHANGED <<notesVars, dashVars, lastReply>>
    /\ UNCHANGED <<authInFlight, lastRequest, fetchCount, uploadVars, quizVars,
                   chatVars, lastToast>>

\* a direct call of one of the operations that go through request()
RequestCall(op) ==
    /\ Fetch(op, RequestAuthorization)
    /\ lastStep' = op
    /\ UNCHANGED <<notesVars, dashVars, lastReply>>
    /\ UNCHANGED <<token, authToken, authInFlight, uploadVars, quizVars, chatVars,
                   lastToast>>

\* a direct call of uploadNote()
UploadNoteCall ==
    /\ Fetch("uploadNote", UploadAuthorization)
    /\ lastStep' = "uploadNote"
    /\ UNCHANGED <<notesVars, dashVars, lastReply>>
    /\ UNCHANGED <<token, authToken, authInFlight, uploadVars, quizVars, chatVars,
                   lastToast>>

(***************************************************************************)
(* UploadModal                                                             *)
(***************************************************************************)
maxSize == 20 * 1024 * 1024

allowedTypes == {"application/pdf",
                 "application/vnd.openxmlformats-officedocument.wordprocessingml.document",
                 "text/plain",
                 "text/markdown"}

\* files the user may pick or drop: sizes around the limit, types in and out of the list
FileSizes == {0, maxSize, maxSize + 1}
FileTypes == allowedTypes \cup {"image/png", ""}
Files == [size : FileSizes, type : FileTypes]
NoFile == [size |-> -1, type |-> "<null>"]      \* file === null

NoUpload == [op |-> "<none>", authorization |-> NoHeader, file |-> NoFile]

\* mutant: a limit of 200 MB instead of 20 MB
SizeAcceptedWrongLimit(f) == ~(f.size > 200 * 1024 * 1024)

SizeAccepted(f) == ~(f.size > maxSize)
TypeAccepted(f) == f.type \in allowedTypes

\* reset(): the three setters (the file input's value is not modelled)
ResetUpload ==
    /\ file' = NoFile
    /\ uploadProgress' = 0
    /\ uploadStatus' = "idle"

\* the Dialog is rendered only while the dashboard keeps it open
OpenUploadModal ==
    /\ ~isUploadModalOpen
    /\ isUploadModalOpen' = TRUE
    /\ lastStep' = "onUploadClick"
    /\ UNCHANGED <<notesVars, dashVars, lastReply>>
    /\ UNCHANGED <<clientVars, file, isUploading, uploadProgress, uploadStatus,
                   progressInterval, resetTimers, uploadRequest,
                   uploadsSucceeded, refreshKey, quizVars, chatVars, lastToast>>

\* onOpenChange={onClose}: the user dismisses the dialog
CloseUploadModal ==
    /\ isUploadModalOpen
    /\ isUploadModalOpen' = FALSE
    /\ lastStep' = "onOpenChange"
    /\ UNCHANGED <<notesVars, dashVars, lastReply>>
    /\ UNCHANGED <<clientVars, file, isUploading, uploadProgress, uploadStatus,
                   progressInterval, resetTimers, uploadRequest,
                   uploadsSucceeded, refreshKey, quizVars, chatVars, lastToast>>

\* handleFileSelect, reached from the drop zone or the file input, both of which
\* are rendered only while no file is selected
handleFileSelect(selectedFile) ==
    /\ isUploadModalOpen
    /\ file = NoFile
    /\ lastStep' = "handleFileSelect"
    /\ UNCHANGED <<notesVars, dashVars, lastReply>>
    /\ IF ~SizeAccepted(selectedFile)
       THEN /\ lastToast' = "File too large"
            /\ UNCHANGED <<file, uploadStatus>>
       ELSE IF ~TypeAccepted(selectedFile)
       THEN /\ lastToast' = "Unsupported file type"
            /\ UNCHANGED <<file, uploadStatus>>
       ELSE /\ file' = selectedFile
            /\ uploadStatus' = "idle"
            /\ UNCHANGED lastToast
    /\ UNCHANGED <<clientVars, isUploading, uploadProgress, progressInterval,
                   resetTimers, uploadRequest, uploadsSucceeded,
                   isUploadModalOpen, refreshKey, quizVars, chatVars>>

\* handleUpload up to the await: the button is rendered with a file selected and
\* disabled while isUploading or after a success
handleUpload ==
    /\ isUploadModalOpen
    /\ file # NoFile
    /\ ~(isUploading \/ uploadStatus = "success")
    /\ isUploading' = TRUE
    /\ uploadStatus' = "uploading"
    /\ uploadProgress' = 0
    /\ progressInterval' = TRUE
    /\ uploadRequest' = [op |-> "uploadNote", authorization |-> UploadAuthorization,
                         file |-> file]
    /\ Fetch("uploadNote", UploadAuthorization)
    /\ lastStep' = "handleUpload"
    /\ UNCHANGED <<notesVars, dashVars, lastReply>>
    /\ UNCHANGED <<token, authToken, authInFlight, file, resetTimers, uploadsSucceeded,
                   isUploadModalOpen, refreshKey, quizVars, chatVars, lastToast>>

\* mutant: the simulated progress capped at 100 instead of 90
TickProgressTo100(prev) == Min(prev + 10, 100)

\* the setInterval callback: setUploadProgress(prev => Math.min(prev + 10, 90))
TickProgress(prev) == Min(prev + 10, 90)

progressTick ==
    /\ progressInterval
    /\ uploadProgress' = TickProgress(uploadProgress)
    /\ lastStep' = "progressTick"
    /\ UNCHANGED <<notesVars, dashVars, lastReply>>
    /\ UNCHANGED <<clientVars, file, isUploading, uploadStatus, progressInterval,
                   resetTimers, uploadRequest, uploadsSucceeded,
                   isUploadModalOpen, refreshKey, quizVars, chatVars, lastToast>>

\* the continuation of handleUpload after await apiClient.uploadNote(file)
uploadResolved ==
    /\ uploadRequest # NoUpload
    /\ uploadRequest' = NoUpload
    /\ progressInterval' = FALSE
    /\ uploadProgress' = 100
    /\ uploadStatus' = "success"
    /\ lastToast' = "Upload successful!"
    /\ resetTimers' = resetTimers + 1
    /\ isUploading' = FALSE
    /\ uploadsSucceeded' = uploadsSucceeded + 1
    /\ lastStep' = "uploadNote:ok"
    /\ lastReply' = NoReply
    /\ UNCHANGED <<notesVars, dashVars>>
    /\ UNCHANGED <<clientVars, file, isUploadModalOpen, refreshKey,
                   quizVars, chatVars>>

\* mutant: the catch branch without its clearInterval
uploadRejectedKeepsInterval ==
    /\ uploadRequest # NoUpload
    /\ uploadRequest' = NoUpload
    /\ uploadStatus' = "error"
    /\ lastToast' = "Upload failed"
    /\ isUploading' = FALSE
    /\ lastStep' = "uploadNote:error"
    /\ lastReply' = NoReply
    /\ UNCHANGED <<clientVars, file, uploadProgress, progressInterval, resetTimers,
                   uploadsSucceeded, isUploadModalOpen, refreshKey, quizVars, chatVars,
                   notesVars, dashVars>>

uploadRejected ==
    /\ uploadRequest # NoUpload
    /\ uploadRequest' = NoUpload
    /\ progressInterval' = FALSE
    /\ uploadStatus' = "error"
    /\ lastToast' = "Upload failed"
    /\ isUploading' = FALSE
    /\ lastStep' = "uploadNote:error"
    /\ lastReply' = NoReply
    /\ UNCHANGED <<notesVars, dashVars>>
    /\ UNCHANGED <<clientVars, file, uploadProgress, resetTimers,
                   uploadsSucceeded, isUploadModalOpen, refreshKey, quizVars, chatVars>>

\* mutant: the delayed callback without its onSuccess()
delayedResetWithoutRefresh ==
    /\ resetTimers > 0
    /\ resetTimers' = resetTimers - 1
    /\ isUploadModalOpen' = FALSE
    /\ ResetUpload
    /\ lastStep' = "delayedReset"
    /\ UNCHANGED <<clientVars, isUploading, progressInterval, uploadRequest,
                   uploadsSucceeded, refreshKey, quizVars, chatVars, notesVars, dashVars,
                   lastToast, lastReply>>

\* the setTimeout callback armed by a success: onSuccess(); onClose(); reset()
delayedReset ==
    /\ resetTimers > 0
    /\ resetTimers' = resetTimers - 1
    /\ refreshKey' = refreshKey + 1
    /\ lastToast' = "Note uploaded successfully!"
    /\ isUploadModalOpen' = FALSE
    /\ ResetUpload
    /\ lastStep' = "delayedReset"
    /\ UNCHANGED <<notesVars, dashVars, lastReply>>
    /\ UNCHANGED <<clientVars, isUploading, progressInterval, uploadRequest, uploadsSucceeded, quizVars, chatVars>>

\* the Cancel and X buttons: onClick={reset}, disabled={isUploading}
cancelUpload ==
    /\ isUploadModalOpen
    /\ file # NoFile
    /\ ~isUploading
    /\ ResetUpload
    /\ lastStep' = "reset"
    /\ UNCHANGED <<notesVars, dashVars, lastReply>>
    /\ UNCHANGED <<clientVars, isUploading, progressInterval, resetTimers,
                   uploadRequest, uploadsSucceeded, isUploadModalOpen,
                   refreshKey, quizVars, chatVars, lastToast>>

(***************************************************************************)
(* QuizInterface                                                           *)
(***************************************************************************)
QuestionTexts == {"q1", "q2"}
Question(t) == [question |-> t]
\* the question lists a backend may return, up to MaxQuestions long
QuestionLists == UNION {[1..n -> {Question(t) : t \in QuestionTexts}] : n \in 0..MaxQuestions}
\* a generateQuestions response body: its questions field may be missing
GenerateResponses == {[hasQuestions |-> TRUE, questions |-> qs] : qs \in QuestionLists}
                       \cup {[hasQuestions |-> FALSE, questions |-> <<>>]}
\* (response as any).questions || []
ResponseQuestions(r) == IF r.hasQuestions THEN r.questions ELSE <<>>

\* what the radio group or the textarea may hand to setSelectedAnswer
AnswerInputs == {"", "a", "b"}

NoResults == [score |-> -1, gradedAnswers |-> <<>>]     \* results === null
SubmitResponses == {[score |-> 0, gradedAnswers |-> <<FALSE>>],
                    [score |-> 1, gradedAnswers |-> <<TRUE>>]}

QuizRequest(op, as) == [op |-> op, answers |-> as]

\* const currentQuestion = questions[currentQuestionIndex]
HasCurrentQuestion == currentQuestionIndex < Len(questions)
currentQuestion == questions[currentQuestionIndex + 1]

\* which of the four returns of the component renders
TakingRendered == quizState = "taking" /\ HasCurrentQuestion
ResultsRendered == quizState = "results" /\ results # NoResults
SetupRendered == quizState = "setup"

\* generateQuiz up to the await; the button is disabled while isLoading
generateQuiz ==
    /\ SetupRendered
    /\ ~quizLoading
    /\ quizLoading' = TRUE
    /\ quizInFlight' = Append(quizInFlight, QuizRequest("generateQuestions", <<>>))
    /\ Fetch("generateQuestions", RequestAuthorization)
    /\ lastStep' = "generateQuiz"
    /\ UNCHANGED <<notesVars, dashVars, lastReply>>
    /\ UNCHANGED <<token, authToken, authInFlight, uploadVars, questions,
                   currentQuestionIndex, answers, selectedAnswer, quizState, results,
                   advances, chatVars, lastToast>>

generateResolved(i, r) ==
    /\ i \in 1..Len(quizInFlight)
    /\ quizInFlight[i].op = "generateQuestions"
    /\ quizInFlight' = RemoveAt(quizInFlight, i)
    /\ questions' = ResponseQuestions(r)
    /\ quizState' = "taking"
    /\ currentQuestionIndex' = 0
    /\ answers' = <<>>
    /\ selectedAnswer' = ""
    /\ quizLoading' = FALSE
    /\ advances' = 0
    /\ lastStep' = "generateQuestions:ok"
    /\ lastReply' = r
    /\ UNCHANGED <<notesVars, dashVars>>
    /\ UNCHANGED <<clientVars, uploadVars, results, chatVars, lastToast>>

\* mutant: a failed generation enters the taking state all the same
generateRejectedEntersTaking(i) ==
    /\ i \in 1..Len(quizInFlight)
    /\ quizInFlight[i].op = "generateQuestions"
    /\ quizInFlight' = RemoveAt(quizInFlight, i)
    /\ lastToast' = "Failed to generate quiz"
    /\ quizLoading' = FALSE
    /\ quizState' = "taking"
    /\ lastStep' = "generateQuestions:error"
    /\ lastReply' = NoReply
    /\ UNCHANGED <<clientVars, uploadVars, questions, currentQuestionIndex, answers,
                   selectedAnswer, results, advances, chatVars, notesVars, dashVars>>

generateRejected(i) ==
    /\ i \in 1..Len(quizInFlight)
    /\ quizInFlight[i].op = "generateQuestions"
    /\ quizInFlight' = RemoveAt(quizInFlight, i)
    /\ lastToast' = "Failed to generate quiz"
    /\ quizLoading' = FALSE
    /\ lastStep' = "generateQuestions:error"
    /\ lastReply' = NoReply
    /\ UNCHANGED <<notesVars, dashVars>>
    /\ UNCHANGED <<clientVars, uploadVars, questions, currentQuestionIndex, answers,
                   selectedAnswer, quizState, results, advances, chatVars>>

\* handleAnswerSelect and the textarea's onChange
handleAnswerSelect(answer) ==
    /\ TakingRendered
    /\ selectedAnswer' = answer
    /\ lastStep' = "handleAnswerSelect"
    /\ UNCHANGED <<notesVars, dashVars, lastReply>>
    /\ UNCHANGED <<clientVars, uploadVars, questions, currentQuestionIndex, answers,
                   quizLoading, quizState, results, quizInFlight, advances, chatVars,
                   lastToast>>

\* mutant: the early return of handleNextQuestion left out
AnswerMissingNever == FALSE

\* if (!selectedAnswer) return
AnswerMissing == ~Truthy(selectedAnswer)

\* mutant: the answer paired with the first question instead of the current one
NewAnswerFirstQuestion == [question |-> questions[1].question, answer |-> selectedAnswer]

\* const newAnswer = { question: questions[currentQuestionIndex].question, answer: selectedAnswer }
NewAnswer == [question |-> currentQuestion.question, answer |-> selectedAnswer]

\* mutant: the last-question test off by one
MoreQuestionsOffByOne == currentQuestionIndex < Len(questions)

\* if (currentQuestionIndex < questions.length - 1)
MoreQuestions == currentQuestionIndex < Len(questions) - 1

\* submitQuiz(finalAnswers) up to the await
submitQuiz(finalAnswers) ==
    /\ quizLoading' = TRUE
    /\ quizInFlight' = Append(quizInFlight, QuizRequest("submitAnswers", finalAnswers))
    /\ Fetch("submitAnswers", RequestAuthorization)

\* handleNextQuestion, submitQuiz's synchronous part included
handleNextQuestion ==
    /\ lastStep' = "handleNextQuestion"
    /\ UNCHANGED <<notesVars, dashVars, lastReply>>
    /\ IF AnswerMissing
       THEN UNCHANGED <<quizVars, lastRequest, fetchCount>>
       ELSE /\ answers' = Append(answers, NewAnswer)
            /\ advances' = advances + 1
            /\ IF MoreQuestions
               THEN /\ currentQuestionIndex' = currentQuestionIndex + 1
                    /\ selectedAnswer' = ""
                    /\ UNCHANGED <<quizLoading, quizInFlight, lastRequest, fetchCount>>
               ELSE /\ submitQuiz(Append(answers, NewAnswer))
                    /\ UNCHANGED <<currentQuestionIndex, selectedAnswer>>
            /\ UNCHANGED <<questions, quizState, results>>
    /\ UNCHANGED <<token, authToken, authInFlight, uploadVars, chatVars, lastToast>>

\* mutant: the Next/Submit button without the isLoading half of its gate
clickNextIgnoresLoading ==
    /\ TakingRendered
    /\ ~AnswerMissing
    /\ handleNextQuestion

\* the Next/Submit button: disabled={!selectedAnswer || isLoading}
clickNext ==
    /\ TakingRendered
    /\ ~(AnswerMissing \/ quizLoading)
    /\ handleNextQuestion

\* handleNextQuestion called while the taking view is rendered, whatever the
\* button's disabled attribute says
invokeNext ==
    /\ TakingRendered
    /\ handleNextQuestion

submitResolved(i, response) ==
    /\ i \in 1..Len(quizInFlight)
    /\ quizInFlight[i].op = "submitAnswers"
    /\ quizInFlight' = RemoveAt(quizInFlight, i)
    /\ results' = response
    /\ quizState' = "results"
    /\ quizLoading' = FALSE
    /\ lastStep' = "submitAnswers:ok"
    /\ lastReply' = response
    /\ UNCHANGED <<notesVars, dashVars>>
    /\ UNCHANGED <<clientVars, uploadVars, questions, currentQuestionIndex, answers,
                   selectedAnswer, advances, chatVars, lastToast>>

\* mutant: a failed submission throws the quiz away
submitRejectedResetsQuiz(i) ==
    /\ i \in 1..Len(quizInFlight)
    /\ quizInFlight[i].op = "submitAnswers"
    /\ quizInFlight' = RemoveAt(quizInFlight, i)
    /\ lastToast' = "Failed to submit quiz"
    /\ quizLoading' = FALSE
    /\ quizState' = "setup"
    /\ questions' = <<>>
    /\ currentQuestionIndex' = 0
    /\ lastStep' = "submitAnswers:error"
    /\ lastReply' = NoReply
    /\ UNCHANGED <<clientVars, uploadVars, answers, selectedAnswer, results, advances,
                   chatVars, notesVars, dashVars>>

submitRejected(i) ==
    /\ i \in 1..Len(quizInFlight)
    /\ quizInFlight[i].op = "submitAnswers"
    /\ quizInFlight' = RemoveAt(quizInFlight, i)
    /\ lastToast' = "Failed to submit quiz"
    /\ quizLoading' = FALSE
    /\ lastStep' = "submitAnswers:error"
    /\ lastReply' = NoReply
    /\ UNCHANGED <<notesVars, dashVars>>
    /\ UNCHANGED <<clientVars, uploadVars, questions, currentQuestionIndex, answers,
                   selectedAnswer, quizState, results, advances, chatVars>>

\* resetQuiz: Cancel Quiz in the taking view, both buttons of the results view
resetQuiz ==
    /\ TakingRendered \/ ResultsRendered
    /\ quizState' = "setup"
    /\ questions' = <<>>
    /\ answers' = <<>>
    /\ currentQuestionIndex' = 0
    /\ selectedAnswer' = ""
    /\ results' = NoResults
    /\ lastStep' = "resetQuiz"
    /\ UNCHANGED <<notesVars, dashVars, lastReply>>
    /\ UNCHANGED <<clientVars, uploadVars, quizLoading, quizInFlight, advances,
                   chatVars, lastToast>>

(***************************************************************************)
(* ChatInterface                                                           *)
(***************************************************************************)
Message(role, content) == [role |-> role, content |-> content]
WelcomeMessage == Message("assistant", "Hi! I'm your AI study assistant.")
ApologyMessage == Message("assistant", "I'm sorry, I encountered an error while processing your question. Please try again.")
NoAnswerText == "I apologize, but I couldn't generate a response. Please try rephrasing your question."

\* what the user may type, and the suggested question a click puts in the input
TypedInputs == {"", " ", "why?"}
SuggestedQuestion == "Can you summarize the main points?"
\* String.prototype.trim on the inputs above
Trim(s) == IF s = " " THEN "" ELSE s

\* a getConversations response body: its messages field may be missing
StoredMessages == {Message("user", "old question"), Message("assistant", "old answer")}
Histories == UNION {[1..n -> StoredMessages] : n \in 0..MaxHistory}
ConversationResponses == {[hasMessages |-> TRUE, messages |-> h] : h \in Histories}
                           \cup {[hasMessages |-> FALSE, messages |-> <<>>]}
\* an askQuestion response body: its answer may be missing or empty
AskAnswers == {"", "because"}

\* the mount effect: loadConversations() up to its await, then the welcome message
mountChat ==
    /\ ~chatMounted
    /\ chatMounted' = TRUE
    /\ convInFlight' = TRUE
    /\ Fetch("getConversations", RequestAuthorization)
    /\ messages' = <<WelcomeMessage>>
    /\ lastStep' = "mount"
    /\ UNCHANGED <<notesVars, dashVars, lastReply>>
    /\ UNCHANGED <<token, authToken, authInFlight, uploadVars, quizVars, inputValue,
                   chatLoading, askInFlight, lenAtSend, lastToast>>

\* the continuation of loadConversations
conversationsResolved(response) ==
    /\ convInFlight
    /\ convInFlight' = FALSE
    /\ IF response.hasMessages
       THEN messages' = response.messages
       ELSE UNCHANGED messages
    /\ lastStep' = "getConversations:ok"
    /\ lastReply' = response
    /\ UNCHANGED <<notesVars, dashVars>>
    /\ UNCHANGED <<clientVars, uploadVars, quizVars, chatMounted, inputValue,
                   chatLoading, askInFlight, lenAtSend, lastToast>>

conversationsRejected ==
    /\ convInFlight
    /\ convInFlight' = FALSE
    /\ lastStep' = "getConversations:error"
    /\ lastReply' = NoReply
    /\ UNCHANGED <<notesVars, dashVars>>
    /\ UNCHANGED <<clientVars, uploadVars, quizVars, chatMounted, messages, inputValue,
                   chatLoading, askInFlight, lenAtSend, lastToast>>

\* the input's onChange; the input is disabled while isLoading
typeInput(v) ==
    /\ chatMounted
    /\ ~chatLoading
    /\ inputValue' = v
    /\ lastStep' = "onChange"
    /\ UNCHANGED <<notesVars, dashVars, lastReply>>
    /\ UNCHANGED <<clientVars, uploadVars, quizVars, chatMounted, messages, chatLoading,
                   convInFlight, askInFlight, lenAtSend, lastToast>>

\* a suggested-question button, rendered while messages.length <= 1
clickSuggestion ==
    /\ chatMounted
    /\ Len(messages) <= 1
    /\ inputValue' = SuggestedQuestion
    /\ lastStep' = "suggestion"
    /\ UNCHANGED <<notesVars, dashVars, lastReply>>
    /\ UNCHANGED <<clientVars, uploadVars, quizVars, chatMounted, messages, chatLoading,
                   convInFlight, askInFlight, lenAtSend, lastToast>>

\* mutant: the guard of handleSendMessage without its isLoading half
SendRefusedIgnoresLoading == ~Truthy(Trim(inputValue))

\* if (!inputValue.trim() || isLoading) return
SendRefused == ~Truthy(Trim(inputValue)) \/ chatLoading

\* handleSendMessage up to the await
handleSendMessage ==
    /\ lastStep' = "handleSendMessage"
    /\ UNCHANGED <<notesVars, dashVars, lastReply>>
    /\ IF SendRefused
       THEN UNCHANGED <<chatVars, lastRequest, fetchCount>>
       ELSE /\ messages' = Append(messages, Message("user", inputValue))
            /\ inputValue' = ""
            /\ chatLoading' = TRUE
            /\ askInFlight' = Append(askInFlight, inputValue)
            /\ Fetch("askQuestion", RequestAuthorization)
            /\ lenAtSend' = Len(messages)
            /\ UNCHANGED <<chatMounted, convInFlight>>
    /\ UNCHANGED <<token, authToken, authInFlight, uploadVars, quizVars, lastToast>>

\* the send button (disabled when the input is blank or isLoading) and the Enter
\* key of the input (disabled while isLoading)
sendMessage ==
    /\ chatMounted
    /\ ~chatLoading
    /\ handleSendMessage

\* handleSendMessage called on the mounted component, whatever the disabled
\* attributes of the input and of the button say
invokeSend ==
    /\ chatMounted
    /\ handleSendMessage

\* the continuation of handleSendMessage
askResolved(i, answer) ==
    /\ i \in 1..Len(askInFlight)
    /\ askInFlight' = RemoveAt(askInFlight, i)
    /\ messages' = Append(messages, Message("assistant",
                          IF Truthy(answer) THEN answer ELSE NoAnswerText))
    /\ chatLoading' = FALSE
    /\ lastStep' = "askQuestion:ok"
    /\ lastReply' = [answer |-> answer]
    /\ UNCHANGED <<notesVars, dashVars>>
    /\ UNCHANGED <<clientVars, uploadVars, quizVars, chatMounted, inputValue,
                   convInFlight, lenAtSend, lastToast>>

askRejected(i) ==
    /\ i \in 1..Len(askInFlight)
    /\ askInFlight' = RemoveAt(askInFlight, i)
    /\ lastToast' = "Failed to get AI response"
    /\ messages' = Append(messages, ApologyMessage)
    /\ chatLoading' = FALSE
    /\ lastStep' = "askQuestion:error"
    /\ lastReply' = NoReply
    /\ UNCHANGED <<notesVars, dashVars>>
    /\ UNCHANGED <<clientVars, uploadVars, quizVars, chatMounted, inputValue,
                   convInFlight, lenAtSend>>

(***************************************************************************)
(* NotesGrid                                                               *)
(***************************************************************************)
NoteIds == {"n1", "n2", "n3"}
Note(id) == [id |-> id, note_name |-> id \o ".pdf"]

\* a getNotes response body: a list of notes with distinct ids, or nothing
NoteLists == {l \in UNION {[1..n -> {Note(id) : id \in NoteIds}] : n \in 0..MaxNotes} :
                \A j, k \in 1..Len(l) : j # k => l[j] # l[k]}
NotesResponses == {[hasNotes |-> TRUE, notes |-> l] : l \in NoteLists}
                    \cup {[hasNotes |-> FALSE, notes |-> <<>>]}
\* notes || []
ResponseNotes(r) == IF r.hasNotes THEN r.notes ELSE <<>>

\* notes.filter(note => note.id !== noteId)
WithoutNote(list, noteId) == SelectSeq(list, LAMBDA n : n.id # noteId)

\* the mount effect: loadNotes() up to its await
mountNotes ==
    /\ ~notesMounted
    /\ viewMode = "dashboard"
    /\ notesMounted' = TRUE
    /\ notesLoadInFlight' = TRUE
    /\ Fetch("getNotes", RequestAuthorization)
    /\ lastStep' = "loadNotes"
    /\ UNCHANGED <<token, authToken, authInFlight, uploadVars, quizVars, chatVars, dashVars, notes,
                   notesLoading, deletesInFlight, loadedNotes, deletedIds, lastToast,
                   lastReply>>

\* the continuation of loadNotes
notesResolved(r) ==
    /\ notesLoadInFlight
    /\ \A k \in 1..Len(r.notes) : r.notes[k].id \notin deletedIds   \* the server lists no deleted note
    /\ notesLoadInFlight' = FALSE
    /\ notes' = ResponseNotes(r)
    /\ loadedNotes' = ResponseNotes(r)
    /\ notesLoading' = FALSE
    /\ lastStep' = "getNotes:ok"
    /\ lastReply' = r
    /\ UNCHANGED <<clientVars, uploadVars, quizVars, chatVars, dashVars, notesMounted,
                   deletesInFlight, deletedIds, lastToast>>

notesRejected ==
    /\ notesLoadInFlight
    /\ notesLoadInFlight' = FALSE
    /\ lastToast' = "Failed to load notes"
    /\ notesLoading' = FALSE
    /\ lastStep' = "getNotes:error"
    /\ lastReply' = NoReply
    /\ UNCHANGED <<clientVars, uploadVars, quizVars, chatVars, dashVars, notesMounted, notes,
                   deletesInFlight, loadedNotes, deletedIds>>

\* handleDeleteNote up to the await, from the delete button of a listed note;
\* the continuation keeps the notes of the render the click happened in
handleDeleteNote(noteId) ==
    /\ ~notesLoading
    /\ \E k \in 1..Len(notes) : notes[k].id = noteId
    /\ deletesInFlight' = Append(deletesInFlight, [id |-> noteId, notes |-> notes])
    /\ Fetch("deleteNote", RequestAuthorization)
    /\ lastStep' = "handleDeleteNote"
    /\ UNCHANGED <<token, authToken, authInFlight, uploadVars, quizVars, chatVars, dashVars,
                   notesMounted, notes, notesLoading, notesLoadInFlight, loadedNotes,
                   deletedIds, lastToast, lastReply>>

\* the continuation of handleDeleteNote
deleteResolved(i) ==
    /\ i \in 1..Len(deletesInFlight)
    /\ deletesInFlight' = RemoveAt(deletesInFlight, i)
    /\ notes' = WithoutNote(deletesInFlight[i].notes, deletesInFlight[i].id)
    /\ deletedIds' = deletedIds \cup {deletesInFlight[i].id}
    /\ lastToast' = "Note deleted"
    /\ lastStep' = "deleteNote:ok"
    /\ lastReply' = NoReply
    /\ UNCHANGED <<clientVars, uploadVars, quizVars, chatVars, dashVars, notesMounted,
                   notesLoading, notesLoadInFlight, loadedNotes>>

\* mutant: the list is filtered in the catch branch as well
deleteRejectedRemovesNote(i) ==
    /\ i \in 1..Len(deletesInFlight)
    /\ deletesInFlight' = RemoveAt(deletesInFlight, i)
    /\ notes' = WithoutNote(deletesInFlight[i].notes, deletesInFlight[i].id)
    /\ lastToast' = "Failed to delete note"
    /\ lastStep' = "deleteNote:error"
    /\ lastReply' = NoReply
    /\ UNCHANGED <<clientVars, uploadVars, quizVars, chatVars, dashVars, notesMounted,
                   notesLoading, notesLoadInFlight, loadedNotes, deletedIds>>

deleteRejected(i) ==
    /\ i \in 1..Len(deletesInFlight)
    /\ deletesInFlight' = RemoveAt(deletesInFlight, i)
    /\ lastToast' = "Failed to delete note"
    /\ lastStep' = "deleteNote:error"
    /\ lastReply' = NoReply
    /\ UNCHANGED <<clientVars, uploadVars, quizVars, chatVars, dashVars, notesMounted, notes,
                   notesLoading, notesLoadInFlight, loadedNotes, deletedIds>>

(***************************************************************************)
(* StudyDashboard: the view mode and the selected note.  NotesGrid is      *)
(* rendered in the dashboard view only, so a change of view unmounts it    *)
(* and the way back mounts a fresh one.  The chat and quiz components the  *)
(* other views render are the subject of their own specifications.         *)
(***************************************************************************)
NoNote == [id |-> "<null>", note_name |-> "<null>"]      \* selectedNote === null

\* a card of the list is clicked: onNoteSelect(note)
handleNoteSelect(note) ==
    /\ viewMode = "dashboard"
    /\ ~notesLoading
    /\ \E k \in 1..Len(notes) : notes[k] = note
    /\ selectedNote' = note
    /\ lastStep' = "handleNoteSelect"
    /\ UNCHANGED <<clientVars, uploadVars, quizVars, chatVars, notesVars, viewMode,
                   staleDeletes, lastToast, lastReply>>

\* NotesGrid leaves the tree: its state is gone, and the continuations of its
\* requests in flight no longer reach any state (no getNotes request can be
\* in flight here: a note is selected only from a loaded list)
UnmountNotes ==
    /\ notesMounted' = FALSE
    /\ notes' = <<>>
    /\ notesLoading' = TRUE
    /\ notesLoadInFlight' = FALSE
    /\ loadedNotes' = <<>>
    /\ staleDeletes' = staleDeletes \o [k \in 1..Len(deletesInFlight) |-> deletesInFlight[k].id]
    /\ deletesInFlight' = <<>>

\* the header's Chat and Quiz buttons, rendered with a selected note in the
\* dashboard view: handleChatWithNote(selectedNote), handleQuizWithNote(selectedNote)
OpenNoteView(mode) ==
    /\ viewMode = "dashboard"
    /\ selectedNote # NoNote
    /\ selectedNote' = selectedNote
    /\ viewMode' = mode
    /\ UnmountNotes
    /\ UNCHANGED <<clientVars, uploadVars, quizVars, chatVars, deletedIds, lastToast,
                   lastReply>>

handleChatWithNote ==
    /\ OpenNoteView("chat")
    /\ lastStep' = "handleChatWithNote"

handleQuizWithNote ==
    /\ OpenNoteView("quiz")
    /\ lastStep' = "handleQuizWithNote"

\* onBack of the chat and quiz views; the dashboard view mounts a new NotesGrid,
\* whose mount effect starts loadNotes
handleBackToDashboard ==
    /\ viewMode \in {"chat", "quiz"}
    /\ viewMode' = "dashboard"
    /\ selectedNote' = NoNote
    /\ notesMounted' = TRUE
    /\ notesLoadInFlight' = TRUE
    /\ Fetch("getNotes", RequestAuthorization)
    /\ lastStep' = "handleBackToDashboard"
    /\ UNCHANGED <<token, authToken, authInFlight, uploadVars, quizVars, chatVars, notes,
                   notesLoading, deletesInFlight, loadedNotes, deletedIds, staleDeletes,
                   lastToast, lastReply>>

\* the continuation of handleDeleteNote in an unmounted NotesGrid: the note is
\* deleted on the server, setNotes has no effect, the toast is shown
staleDeleteResolved(i) ==
    /\ i \in 1..Len(staleDeletes)
    /\ staleDeletes' = RemoveAt(staleDeletes, i)
    /\ deletedIds' = deletedIds \cup {staleDeletes[i]}
    /\ lastToast' = "Note deleted"
    /\ lastStep' = "deleteNote:ok:unmounted"
    /\ lastReply' = NoReply
    /\ UNCHANGED <<clientVars, uploadVars, quizVars, chatVars, notesMounted, notes,
                   notesLoading, notesLoadInFlight, deletesInFlight, loadedNotes,
                   viewMode, selectedNote>>

staleDeleteRejected(i) ==
    /\ i \in 1..Len(staleDeletes)
    /\ staleDeletes' = RemoveAt(staleDeletes, i)
    /\ lastToast' = "Failed to delete note"
    /\ lastStep' = "deleteNote:error:unmounted"
    /\ lastReply' = NoReply
    /\ UNCHANGED <<clientVars, uploadVars, quizVars, chatVars, notesMounted, notes,
                   notesLoading, notesLoadInFlight, deletesInFlight, loadedNotes,
                   deletedIds, viewMode, selectedNote>>

(***************************************************************************)
(* Initial state: the module-level client is constructed (its token read   *)
(* from localStorage) and every component holds its useState defaults.     *)
(***************************************************************************)
InitClient ==
    /\ authToken \in Tokens \cup {null}
    /\ token = authToken
    /\ authInFlight = <<>>
    /\ lastRequest = NoRequest
    /\ fetchCount = 0

InitUpload ==
    /\ file = NoFile
    /\ isUploading = FALSE
    /\ uploadProgress = 0
    /\ uploadStatus = "idle"
    /\ progressInterval = FALSE
    /\ resetTimers = 0
    /\ uploadRequest = NoUpload
    /\ uploadsSucceeded = 0
    /\ isUploadModalOpen = FALSE
    /\ refreshKey = 0

InitQuiz ==
    /\ questions = <<>>
    /\ currentQuestionIndex = 0
    /\ answers = <<>>
    /\ selectedAnswer = ""
    /\ quizLoading = FALSE
    /\ quizState = "setup"
    /\ results = NoResults
    /\ quizInFlight = <<>>
    /\ advances = 0

InitChat ==
    /\ chatMounted = FALSE
    /\ messages = <<>>
    /\ inputValue = ""
    /\ chatLoading = FALSE
    /\ convInFlight = FALSE
    /\ askInFlight = <<>>
    /\ lenAtSend = 0

InitNotes ==
    /\ notesMounted = FALSE
    /\ notes = <<>>
    /\ notesLoading = TRUE
    /\ notesLoadInFlight = FALSE
    /\ deletesInFlight = <<>>
    /\ loadedNotes = <<>>
    /\ deletedIds = {}

InitDashboard ==
    /\ viewMode = "dashboard"
    /\ selectedNote = NoNote
    /\ staleDeletes = <<>>

Init ==
    /\ InitClient
    /\ InitUpload
    /\ InitQuiz
    /\ InitChat
    /\ InitNotes
    /\ InitDashboard
    /\ lastToast = ""
    /\ lastStep = "init"
    /\ lastReply = NoReply

(***************************************************************************)
(* Specifications, one per flow.                                           *)
(***************************************************************************)
NextClient ==
    \/ \E op \in AuthOps : AuthCall(op)
    \/ \E i \in 1..MaxAuthInFlight, ok \in BOOLEAN, tok \in Tokens : AuthResponse(i, ok, tok)
    \/ logout
    \/ \E op \in RequestOps : RequestCall(op)
    \/ UploadNoteCall

SpecClient == Init /\ [][NextClient]_vars

NextUpload ==
    \/ OpenUploadModal
    \/ CloseUploadModal
    \/ \E f \in Files : handleFileSelect(f)
    \/ handleUpload
    \/ progressTick
    \/ uploadResolved
    \/ uploadRejected
    \/ delayedReset
    \/ cancelUpload

SpecUpload == Init /\ [][NextUpload]_vars

\* the same flow with the browser's timer guarantee: an armed setTimeout
\* callback is run
SpecUploadFair == Init /\ [][NextUpload]_vars /\ WF_vars(delayedReset)

NextQuiz ==
    \/ generateQuiz
    \/ \E i \in 1..Len(quizInFlight), r \in GenerateResponses : generateResolved(i, r)
    \/ \E i \in 1..Len(quizInFlight) : generateRejected(i)
    \/ \E a \in AnswerInputs : handleAnswerSelect(a)
    \/ clickNext
    \/ \E i \in 1..Len(quizInFlight), r \in SubmitResponses : submitResolved(i, r)
    \/ \E i \in 1..Len(quizInFlight) : submitRejected(i)
    \/ resetQuiz

SpecQuiz == Init /\ [][NextQuiz]_vars

\* the quiz flow with handleNextQuestion called directly
NextQuizHandlers ==
    \/ generateQuiz
    \/ \E i \in 1..Len(quizInFlight), r \in GenerateResponses : generateResolved(i, r)
    \/ \E i \in 1..Len(quizInFlight) : generateRejected(i)
    \/ \E a \in AnswerInputs : handleAnswerSelect(a)
    \/ invokeNext
    \/ \E i \in 1..Len(quizInFlight), r \in SubmitResponses : submitResolved(i, r)
    \/ \E i \in 1..Len(quizInFlight) : submitRejected(i)
    \/ resetQuiz

SpecQuizHandlers == Init /\ [][NextQuizHandlers]_vars

NextChat ==
    \/ mountChat
    \/ \E r \in ConversationResponses : conversationsResolved(r)
    \/ conversationsRejected
    \/ \E v \in TypedInputs : typeInput(v)
    \/ clickSuggestion
    \/ sendMessage
    \/ \E i \in 1..Len(askInFlight), a \in AskAnswers : askResolved(i, a)
    \/ \E i \in 1..Len(askInFlight) : askRejected(i)

SpecChat == Init /\ [][NextChat]_vars

\* the chat flow with handleSendMessage reachable past its disabled controls
NextChatHandlers ==
    \/ mountChat
    \/ \E r \in ConversationResponses : conversationsResolved(r)
    \/ conversationsRejected
    \/ \E v \in TypedInputs : typeInput(v)
    \/ clickSuggestion
    \/ invokeSend
    \/ \E i \in 1..Len(askInFlight), a \in AskAnswers : askResolved(i, a)
    \/ \E i \in 1..Len(askInFlight) : askRejected(i)

SpecChatHandlers == Init /\ [][NextChatHandlers]_vars

NextNotes ==
    \/ mountNotes
    \/ \E r \in NotesResponses : notesResolved(r)
    \/ notesRejected
    \/ \E id \in NoteIds : handleDeleteNote(id)
    \/ \E i \in 1..Len(deletesInFlight) : deleteResolved(i)
    \/ \E i \in 1..Len(deletesInFlight) : deleteRejected(i)

SpecNotes == Init /\ [][NextNotes]_vars

NextDashboard ==
    \/ mountNotes
    \/ \E r \in NotesResponses : notesResolved(r)
    \/ notesRejected
    \/ \E id \in NoteIds : handleDeleteNote(id)
    \/ \E i \in 1..Len(deletesInFlight) : deleteResolved(i)
    \/ \E i \in 1..Len(deletesInFlight) : deleteRejected(i)
    \/ \E id \in NoteIds : handleNoteSelect(Note(id))
    \/ handleChatWithNote
    \/ handleQuizWithNote
    \/ handleBackToDashboard
    \/ \E i \in 1..Len(staleDeletes) : staleDeleteResolved(i)
    \/ \E i \in 1..Len(staleDeletes) : staleDeleteRejected(i)

SpecDashboard == Init /\ [][NextDashboard]_vars

(***************************************************************************)
(* Properties.                                                             *)
(***************************************************************************)

C1_Accepted(f) ==
    /\ f.size <= 20 * 1024 * 1024
    /\ f.type \in {"application/pdf",
                   "application/vnd.openxmlformats-officedocument.wordprocessingml.document",
                   "text/plain", "text/markdown"}

\* C1: the selected file and the file of every uploadNote request in flight
\* passed both local checks: at most 20 MB and a MIME type of the allow-list.
C1_OnlyValidatedFilesReachNetwork ==
    /\ file # NoFile => C1_Accepted(file)
    /\ uploadRequest # NoUpload => C1_Accepted(uploadRequest.file)

\* a file was refused, then a file of exactly 20 MB is being uploaded
C1_Witness ==
    /\ uploadRequest # NoUpload
    /\ uploadRequest.file.size = 20 * 1024 * 1024
    /\ lastToast \in {"File too large", "Unsupported file type"}

C2_Shown == isUploading \/ uploadStatus = "success"

\* C2: while an uploadNote request is in flight or its success is displayed
\* (before and after the step), no step lowers uploadProgress.
C2_ProgressNeverLowered ==
    [][(C2_Shown /\ C2_Shown') => uploadProgress' >= uploadProgress]_vars

\* C3: uploadProgress is 100 only once an uploadNote call has resolved
\* successfully; while the request is in flight, and after any timer tick, it is
\* at most 90.
C3_HundredOnlyAfterSuccess ==
    /\ uploadProgress = 100 => uploadsSucceeded > 0
    /\ uploadRequest # NoUpload => uploadProgress <= 90
    /\ lastStep = "progressTick" => uploadProgress <= 90

\* the first successful upload has just forced the progress to 100
C3_Witness ==
    /\ uploadProgress = 100
    /\ uploadStatus = "success"
    /\ uploadsSucceeded = 1
    /\ lastStep = "uploadNote:ok"

\* C4: handleNextQuestion called with an empty selectedAnswer changes no cell
\* of the quiz and issues no request.
C4_BlockedAdvanceChangesNothing ==
    [][(lastStep' = "handleNextQuestion" /\ selectedAnswer = "")
          => UNCHANGED <<quizVars, lastRequest, fetchCount>>]_vars

\* handleNextQuestion has just run with no answer selected on a fresh quiz
C4_Witness ==
    /\ lastStep = "handleNextQuestion"
    /\ quizState = "taking"
    /\ selectedAnswer = ""
    /\ advances = 0
    /\ answers = <<>>

\* C5: while the quiz is being taken the accumulator is as long as the number
\* of accepted advances of the session, and each accepted advance appends the
\* text of the displayed question with the answer selected at that step.
C5_AccumulatorTracksAdvances ==
    /\ [](quizState = "taking" => Len(answers) = advances)
    /\ [][advances' = advances + 1 =>
             answers' = Append(answers,
                               [question |-> questions[currentQuestionIndex + 1].question,
                                answer |-> selectedAnswer])]_vars

\* two advances with different questions and different answers
C5_Witness ==
    /\ quizState = "taking"
    /\ advances = 2
    /\ Len(answers) = 2
    /\ answers[1].question # answers[2].question
    /\ answers[1].answer # answers[2].answer

\* C6: every submitAnswers request carries one answer per generated question,
\* the i-th answer naming the i-th question.
C6_SubmitPairsWithQuestions ==
    [][(/\ Len(quizInFlight') = Len(quizInFlight) + 1
        /\ quizInFlight'[Len(quizInFlight')].op = "submitAnswers")
          => LET sent == quizInFlight'[Len(quizInFlight')].answers
             IN  /\ Len(sent) = Len(questions)
                 /\ \A i \in 1..Len(sent) : sent[i].question = questions[i].question]_vars

\* C7: an accepted advance issues a submitAnswers request exactly when the
\* index is the last one; otherwise it moves the index on by one, clears the
\* selected answer and issues no request.
C7_SubmitExactlyAtLastQuestion ==
    [][advances' = advances + 1 =>
         IF currentQuestionIndex = Len(questions) - 1
         THEN /\ quizInFlight' = Append(quizInFlight, [op |-> "submitAnswers", answers |-> answers'])
              /\ fetchCount' = fetchCount + 1
              /\ lastRequest'.op = "submitAnswers"
              /\ currentQuestionIndex' = currentQuestionIndex
         ELSE /\ currentQuestionIndex' = currentQuestionIndex + 1
              /\ selectedAnswer' = ""
              /\ quizInFlight' = quizInFlight
              /\ fetchCount' = fetchCount
              /\ lastRequest' = lastRequest]_vars

\* the second of two questions has just been answered and the quiz submitted
C7_Witness ==
    /\ lastStep = "handleNextQuestion"
    /\ Len(questions) = 2
    /\ currentQuestionIndex = 1
    /\ advances = 2
    /\ Len(quizInFlight) = 1
    /\ quizInFlight[1].op = "submitAnswers"

\* C8: when a send completes, the transcript is exactly 2 longer than it was
\* when the send started.
C8_SendAddsTwo ==
    lastStep \in {"askQuestion:ok", "askQuestion:error"} => Len(messages) = lenAtSend + 2

\* C9: logout leaves the token null, the localStorage entry removed and
\* isAuthenticated false, and makes no fetch call.
C9_LogoutClearsSession ==
    [][lastStep' = "logout" =>
         /\ token' = null
         /\ authToken' = null
         /\ ~isAuthenticated'
         /\ fetchCount' = fetchCount
         /\ lastRequest' = lastRequest
         /\ authInFlight' = authInFlight]_vars

\* logout has just run in a session whose token "t1" had been sent in a request
C9_Witness ==
    /\ lastStep = "logout"
    /\ token = null
    /\ authToken = null
    /\ lastRequest.authorization = "Bearer t1"

\* C10: the request of each of the nine client operations carries
\* 'Bearer <token>' when a token is present and no Authorization header when it
\* is absent.
C10_AuthorizationIffToken ==
    lastStep \in RequestOps \cup {"uploadNote"} =>
        lastRequest.authorization =
            (IF token # null /\ token # "" THEN "Bearer " \o token ELSE NoHeader)

\* C11: a login or register that succeeds stores the token of the response in
\* the field and in localStorage; one that fails (request() throws) leaves both
\* exactly as they were.
C11_TokenStoredOnlyOnSuccess ==
    [][/\ lastStep' \in {"login:ok", "register:ok"} =>
            /\ token' = lastReply'.token
            /\ authToken' = lastReply'.token
       /\ lastStep' \in {"login:error", "register:error"} =>
            /\ token' = token
            /\ authToken' = authToken]_vars

\* a login that replaced the stored token by the returned one
C11_Witness ==
    /\ lastStep = "login:ok"
    /\ lastReply = [token |-> "t2"]
    /\ token = "t2"
    /\ authToken = "t2"
    /\ fetchCount > 1

\* C12: a failed submission leaves the quiz state, the questions and the index
\* as they were (a quiz being taken stays taken), stores no results and clears
\* the loading flag; a successful one moves to results holding the response.
C12_FailedSubmitKeepsQuiz ==
    [][/\ lastStep' = "submitAnswers:error" =>
            /\ quizState = "taking" => quizState' = "taking"
            /\ UNCHANGED <<quizState, questions, currentQuestionIndex>>
            /\ results' = NoResults
            /\ ~quizLoading'
       /\ lastStep' = "submitAnswers:ok" =>
            /\ quizState' = "results"
            /\ results' = lastReply'
            /\ ~quizLoading']_vars

\* the submission of a two-question quiz has failed and the quiz is still there
C12_Witness ==
    /\ lastStep = "submitAnswers:error"
    /\ quizState = "taking"
    /\ Len(questions) = MaxQuestions
    /\ currentQuestionIndex = MaxQuestions - 1
    /\ results = NoResults
    /\ ~quizLoading

\* C13: generateQuiz issues one request; its success takes the quiz from setup
\* to taking with the returned questions, index 0, no answers and no selected
\* answer; its failure leaves the quiz in setup with questions, index and
\* answers unchanged.
C13_GenerateOutcome ==
    [][/\ lastStep' = "generateQuiz" =>
            /\ fetchCount' = fetchCount + 1
            /\ lastRequest'.op = "generateQuestions"
            /\ Len(quizInFlight') = Len(quizInFlight) + 1
       /\ lastStep' \in {"generateQuestions:ok", "generateQuestions:error"} =>
            fetchCount' = fetchCount
       /\ lastStep' = "generateQuestions:ok" =>
            /\ quizState = "setup"
            /\ quizState' = "taking"
            /\ lastReply'.hasQuestions => questions' = lastReply'.questions
            /\ currentQuestionIndex' = 0
            /\ answers' = <<>>
            /\ selectedAnswer' = ""
       /\ lastStep' = "generateQuestions:error" =>
            /\ quizState = "setup"
            /\ UNCHANGED <<quizState, questions, currentQuestionIndex, answers>>]_vars

\* a generation that succeeded after an earlier one had failed
C13_Witness ==
    /\ lastStep = "generateQuestions:ok"
    /\ lastToast = "Failed to generate quiz"
    /\ quizState = "taking"
    /\ Len(questions) = MaxQuestions
    /\ questions = lastReply.questions

\* C14: at most one askQuestion request is outstanding, and a send invoked
\* while a request is outstanding or with a blank input appends nothing,
\* issues no request and changes nothing else of the chat.
C14_NoConcurrentSends ==
    /\ [](Len(askInFlight) <= 1)
    /\ [][(lastStep' = "handleSendMessage" /\ (chatLoading \/ inputValue \in {"", " "}))
            => UNCHANGED <<chatVars, lastRequest, fetchCount>>]_vars

\* a send was invoked on a filled input while a request was outstanding, and
\* was refused
C14_Witness ==
    /\ lastStep = "handleSendMessage"
    /\ chatLoading
    /\ inputValue = SuggestedQuestion
    /\ Len(askInFlight) = 1

C15_IsPrefix(s, t) == Len(s) <= Len(t) /\ SubSeq(t, 1, Len(s)) = s

\* C15: once the mount effect has seeded the welcome message, every step leaves
\* the previous transcript as a prefix of the new one.
C15_TranscriptAppendOnly ==
    [][chatMounted => C15_IsPrefix(messages, messages')]_vars

C16_Contains(s, m) == \E k \in 1..Len(s) : s[k] = m

C17_FailedUploadStops ==
    /\ [](uploadStatus = "error" => ~progressInterval)
    /\ [][/\ lastStep' = "uploadNote:error" =>
                /\ uploadStatus' = "error"
                /\ ~progressInterval'
                /\ ~isUploading'
                /\ UNCHANGED <<file, uploadProgress, refreshKey, isUploadModalOpen,
                               resetTimers>>
          /\ (uploadStatus = "error" /\ uploadProgress' # uploadProgress) =>
                lastStep' \in {"handleUpload", "reset", "delayedReset"}]_vars

\* an upload failed after some simulated progress; the file is still selected
C17_Witness ==
    /\ lastStep = "uploadNote:error"
    /\ uploadStatus = "error"
    /\ uploadProgress > 0
    /\ file # NoFile
    /\ isUploadModalOpen
    /\ ~isUploading

\* C18: every successful upload is eventually followed by one run of the
\* delayed callback, which fires the refresh signal once, closes the modal and
\* resets the flow to idle with no file; the refresh signal fires at no other
\* step, so never for an upload that failed or was not sent.
C18_SuccessThenOneRefresh ==
    /\ [](refreshKey + resetTimers = uploadsSucceeded)
    /\ [][/\ lastStep' = "delayedReset" =>
                /\ refreshKey' = refreshKey + 1
                /\ ~isUploadModalOpen'
                /\ file' = NoFile
                /\ uploadStatus' = "idle"
                /\ uploadProgress' = 0
          /\ refreshKey' # refreshKey => lastStep' = "delayedReset"
          /\ lastStep' = "uploadNote:ok" => uploadsSucceeded' = uploadsSucceeded + 1
          /\ uploadsSucceeded' # uploadsSucceeded => lastStep' = "uploadNote:ok"]_vars
    /\ \A n \in 1..MaxFetch : (uploadsSucceeded >= n) ~> (refreshKey >= n)

\* one upload failed, the next succeeded and its delayed callback has run
C18_Witness ==
    /\ lastStep = "delayedReset"
    /\ fetchCount = 2
    /\ uploadsSucceeded = 1
    /\ refreshKey = 1
    /\ resetTimers = 0
    /\ file = NoFile
    /\ ~isUploadModalOpen

C19_Listed(n) == \E k \in 1..Len(notes) : notes[k] = n

\* C19: a failed deleteNote leaves the displayed list as it was; the list
\* changes only when a load or a delete succeeds, and a loaded note is missing
\* from the list only if a delete request for its id has succeeded.
C19_FailedDeleteKeepsList ==
    /\ [](\A k \in 1..Len(loadedNotes) :
            C19_Listed(loadedNotes[k]) \/ loadedNotes[k].id \in deletedIds)
    /\ [][/\ lastStep' = "deleteNote:error" => notes' = notes
          /\ notes' # notes => lastStep' \in {"getNotes:ok", "deleteNote:ok"}
          /\ lastStep' = "deleteNote:ok" =>
                \E i \in 1..Len(deletesInFlight) :
                    /\ deletesInFlight' = RemoveAt(deletesInFlight, i)
                    /\ \A k \in 1..Len(notes') : notes'[k].id # deletesInFlight[i].id]_vars

\* of two loaded notes one was deleted; the delete of the other has failed and
\* it is still listed
C19_Witness ==
    /\ lastStep = "deleteNote:error"
    /\ Len(loadedNotes) = 2
    /\ Len(notes) = 1
    /\ deletedIds # {}
    /\ deletesInFlight = <<>>

\* C20: whenever the quiz is in the taking state the question list is not
\* empty and the current index addresses one of its questions.
C20_TakingHasCurrentQuestion ==
    quizState = "taking" =>
        /\ Len(questions) > 0
        /\ currentQuestionIndex \in 0..(Len(questions) - 1)

\* C21: a quiz in setup stays there with no questions, no answers and no
\* results until a generation succeeds; no other response, that of a
\* submission still in flight when the quiz was cancelled included, moves it.
C21_SetupUntilGenerated ==
    [][quizState = "setup" =>
          \/ lastStep' = "generateQuestions:ok"
          \/ /\ quizState' = "setup"
             /\ questions' = <<>>
             /\ answers' = <<>>
             /\ results' = NoResults]_vars

\* C26: at most one quiz request is outstanding; the loading flag is set
\* exactly while one is, and while it is set no step issues a request, also
\* after Cancel Quiz was pressed during a submission.
C26_OneQuizRequest ==
    /\ [](Len(quizInFlight) <= 1)
    /\ [](quizLoading <=> Len(quizInFlight) = 1)
    /\ [][quizLoading => fetchCount' = fetchCount]_vars

\* the quiz was cancelled while its submission is still outstanding
C26_Witness ==
    /\ quizState = "setup"
    /\ lastStep = "resetQuiz"
    /\ quizLoading
    /\ Len(quizInFlight) = 1
    /\ quizInFlight[1].op = "submitAnswers"

\* C22: no note whose delete request has succeeded is listed, and once no
\* delete is outstanding the list is the loaded list without the deleted ids.
C22_DeletedNeverListed ==
    /\ \A k \in 1..Len(notes) : notes[k].id \notin deletedIds
    /\ deletesInFlight = <<>> =>
            notes = SelectSeq(loadedNotes, LAMBDA n : n.id \notin deletedIds)

\* C23: the selected note is never a note whose delete has succeeded, in the
\* dashboard view and in the chat and quiz views alike.
C23_SelectedNoteNotDeleted ==
    selectedNote # NoNote => selectedNote.id \notin deletedIds

\* C24: while an upload request is in flight the status is uploading and the
\* selected file is the file being uploaded, and only that request's own
\* completion takes the file, the status or the progress away from it.
C24_InFlightUploadUndisturbed ==
    /\ [](isUploading =>
            /\ uploadStatus = "uploading"
            /\ file # NoFile
            /\ file = uploadRequest.file)
    /\ [][(isUploading /\ lastStep' \notin {"uploadNote:ok", "uploadNote:error"}) =>
            /\ file' = file
            /\ uploadStatus' = uploadStatus
            /\ uploadProgress' >= uploadProgress]_vars

\* C25: in every state of the client the token field equals the value stored
\* under authToken: both null, or both the same string.
C25_TokenEqualsStorage ==
    /\ token = authToken
    /\ token \in Tokens \cup {null}

\* a register call has failed after a token had been stored
C25_Witness ==
    /\ lastStep = "register:error"
    /\ token = "t1"
    /\ authToken = "t1"
    /\ fetchCount = MaxFetch

====
